---- MODULE Spec2Model ----
(***************************************************************************)
(* Reconciliation of delivery rows into the master table                   *)
(* (backend/src/routers/master_data.py): batch upload, conditional         *)
(* single-row update, skip-date append and explicit delete, acting on one  *)
(* PostgreSQL table whose rows are modelled as functions from column name  *)
(* to text value.                                                          *)
(***************************************************************************)
EXTENDS Integers, Sequences, FiniteSets, TLC

VARIABLES
    store,      \* committed rows of the table, in insertion order
    pc,         \* "idle", or "upload" while upload_master_data runs its loop
    batch,      \* request.data of the running / last upload
    idx,        \* index of the next row of batch the loop will process
    txn,        \* the table as seen inside the upload's open transaction
    aborted,    \* the upload's transaction is in PostgreSQL's aborted state
    counts,     \* success_count / updated_count / skipped_count / error_count
    log,        \* per row of batch: what the loop did with it
    replay,     \* the running / last upload re-submits the previous batch
    snap,       \* the row an editing session holds (index when fetched, content)
    req,        \* the kind of the last request served (and its editor)
    resp,       \* the response to req
    ops,        \* number of write requests served so far
    uploads     \* number of uploads among them

vars == <<store, pc, batch, idx, txn, aborted, counts, log, replay, snap,
          req, resp, ops, uploads>>

----------------------------------------------------------------------------
(* Bounds of the exploration *)

MaxOps == 2
MaxUploads == 2
MaxBatch == 2
MaxRows == 4
MaxAppends == 5
MaxFrame == 2
MaxEdits == 3

----------------------------------------------------------------------------
(* Values and Python / SQL text primitives on the value universe *)

\* Python None and SQL NULL
NULL == "<NULL>"

\* a value the target column cannot store: the INSERT statement raises
BadValue == "<unstorable>"

SkipCols == << "SKIP1", "SKIP2", "SKIP3", "SKIP4", "SKIP5", "SKIP6", "SKIP7",
               "SKIP8", "SKIP9", "SKIP10", "SKIP11", "SKIP12", "SKIP13",
               "SKIP14", "SKIP15", "SKIP16", "SKIP17", "SKIP18", "SKIP19",
               "SKIP20" >>

NumSkipSlots == 20

SkipColSet == { SkipCols[i] : i \in 1..NumSkipSlots }

\* the columns of the table that the model carries
DbCols == {"ORDER ID", "SKU", "DATE", "NAME"} \cup SkipColSet

\* str(v)
PyStr(v) == IF v = NULL THEN "None" ELSE v

\* s.strip(), and SQL TRIM
Strip(s) ==
    CASE s = " 1001" -> "1001"
      [] s = " A"    -> "A"
      [] s = " "     -> ""
      [] s = "Weekly " -> "Weekly"
      [] s = " TBD " -> "TBD"
      [] s = " yes"  -> "yes"
      [] OTHER       -> s

\* s.lower()
Lower(s) ==
    CASE s = "None" -> "none"
      [] s = "NaN"  -> "nan"
      [] s = "P"    -> "p"
      [] s = "A"    -> "a"
      [] s = "B"    -> "b"
      [] s = " A"   -> " a"
      [] s = "Yes"  -> "yes"
      [] s = "YES"  -> "yes"
      [] OTHER      -> s

\* Python truthiness of a str-or-None value
Truthy(v) == v # NULL /\ v # ""

\* datetime.now().year at the time of the runs
CurrentYear == 2026

\* the DATE normalisation of upload_master_data: "d-Mon" gets the current
\* year, anything pandas parses is reformatted, the rest is left alone
NormDate(v) ==
    IF ~Truthy(v) THEN v
    ELSE CASE Strip(v) = "2-Feb" /\ CurrentYear = 2026 -> "2026-02-02"
           [] Strip(v) = "2026-02-02"                  -> "2026-02-02"
           [] Strip(v) = "02/02/2026"                  -> "2026-02-02"
           [] OTHER                                    -> v

----------------------------------------------------------------------------
(* upload_master_data *)

\* valid_row: the row restricted to the table's columns, DATE normalised
ValidRow(row) ==
    [k \in (DOMAIN row) \cap DbCols |->
        IF k = "DATE" THEN NormDate(row[k]) ELSE row[k]]

\* params[safe_param(k)]: empty string becomes None
Param(v) == IF v = "" THEN NULL ELSE v

\* oid = str(valid_row.get("ORDER ID", "")).strip()
RowOid(vrow) ==
    IF "ORDER ID" \in DOMAIN vrow THEN Strip(PyStr(vrow["ORDER ID"])) ELSE ""

\* sku_val: stripped text, None when missing, empty or the text "None"
RowSku(vrow) ==
    LET s == IF "SKU" \in DOMAIN vrow THEN Strip(PyStr(vrow["SKU"])) ELSE ""
    IN  IF s = "None" \/ s = "" THEN NULL ELSE s

\* the existence check: "ORDER ID" = :oid AND ("SKU" = :sku | "SKU" IS NULL)
KeyMatches(tab, oid, sku) ==
    { i \in 1..Len(tab) :
        /\ tab[i]["ORDER ID"] # NULL
        /\ tab[i]["ORDER ID"] = oid
        /\ IF sku # NULL THEN tab[i]["SKU"] # NULL /\ tab[i]["SKU"] = sku
                         ELSE tab[i]["SKU"] = NULL }

\* is_duplicate: every supplied non-key field equals the stored one as text,
\* None compared as ""
IsDuplicate(vrow, rec) ==
    \A k \in (DOMAIN vrow) \ {"ORDER ID", "SKU"} :
        LET s_inc == IF Param(vrow[k]) # NULL THEN PyStr(Param(vrow[k])) ELSE ""
            s_db  == IF rec[k] # NULL THEN PyStr(rec[k]) ELSE ""
        IN  s_inc = s_db

\* the row the INSERT statement creates
InsertRecord(vrow) ==
    [k \in DbCols |-> IF k \in DOMAIN vrow THEN Param(vrow[k]) ELSE NULL]

\* the INSERT statement fails in the database
InsertRejected(vrow) == \E k \in DOMAIN vrow : vrow[k] = BadValue

\* variant: the UPDATE executed with every bind parameter it names supplied
BindsSupplied(vrow, sku) == {}

\* the names the UPDATE statement binds (:oid, :sku) that params, keyed by
\* safe_param(column), does not supply
UpdateMissingBinds(vrow, sku) ==
    ({"oid"} \cup (IF sku # NULL THEN {"sku"} ELSE {}))
        \ { IF k = "ORDER ID" THEN "ORDER_ID" ELSE k : k \in DOMAIN vrow }

\* the rows the UPDATE statement rewrites when it is executed
UpdateApplied(tab, vrow, oid, sku) ==
    [i \in 1..Len(tab) |->
        IF i \in KeyMatches(tab, oid, sku)
        THEN [k \in DbCols |->
                IF k \in (DOMAIN vrow) \ {"ORDER ID", "SKU"}
                THEN Param(vrow[k]) ELSE tab[i][k]]
        ELSE tab[i]]

ZeroCounts == [inserted |-> 0, updated |-> 0, skipped |-> 0, errors |-> 0]

Bump(c, f) == [c EXCEPT ![f] = @ + 1]

NoReq == [op |-> "none"]
NoResp == [status |-> 0]
NoSnap == [idx |-> 0]

\* the cells in which table new differs from table old, row by row
Edits(old, new) ==
    { t \in { <<i, k, new[i][k]>> : i \in 1..Len(old), k \in DbCols } :
        new[t[1]][t[2]] # old[t[1]][t[2]] }

----------------------------------------------------------------------------
(* update_master_row *)

\* variant: only the unnamed column is dropped from the updates
NonEmptyUpdates(upd) == [k \in (DOMAIN upd) \ {""} |-> upd[k]]

\* valid_updates: updates without the empty key and without "ORDER ID"
ValidUpdates(upd) ==
    [k \in (DOMAIN upd) \ {"", "ORDER ID"} |-> upd[k]]

\* the fingerprint value selects the "IS NULL OR = '' OR = 'nan'" condition
FpEmpty(v) == v = NULL \/ Lower(PyStr(v)) \in {"nan", "none", ""}

\* variant: a WHERE clause on the key alone, the last writer winning
FpMatchesKeyOnly(rec, order_id, fp) ==
    /\ rec["ORDER ID"] # NULL
    /\ rec["ORDER ID"] = order_id
    /\ "SKU" \in DOMAIN fp =>
          IF FpEmpty(fp["SKU"])
          THEN rec["SKU"] = NULL \/ rec["SKU"] = "" \/ rec["SKU"] = "nan"
          ELSE rec["SKU"] # NULL /\ rec["SKU"] = PyStr(fp["SKU"])

\* the WHERE clause built from order_id and original_row
FpMatches(rec, order_id, fp) ==
    /\ rec["ORDER ID"] # NULL
    /\ rec["ORDER ID"] = order_id
    /\ \A k \in (DOMAIN fp) \ {"ORDER ID"} :
          IF FpEmpty(fp[k])
          THEN rec[k] = NULL \/ rec[k] = "" \/ rec[k] = "nan"
          ELSE rec[k] # NULL /\ rec[k] = PyStr(fp[k])

\* variant: the UPDATE reaches every record of the order
UpdatedWholeOrder(tab, order_id, fp, upd) ==
    [i \in 1..Len(tab) |->
        IF tab[i]["ORDER ID"] # NULL /\ tab[i]["ORDER ID"] = order_id
        THEN [k \in DbCols |->
                IF k \in DOMAIN ValidUpdates(upd) THEN upd[k] ELSE tab[i][k]]
        ELSE tab[i]]

\* the table after UPDATE ... SET valid_updates WHERE fingerprint
FpUpdated(tab, order_id, fp, upd) ==
    [i \in 1..Len(tab) |->
        IF FpMatches(tab[i], order_id, fp)
        THEN [k \in DbCols |->
                IF k \in DOMAIN ValidUpdates(upd) THEN upd[k] ELSE tab[i][k]]
        ELSE tab[i]]

\* the whole handler: new table and response
UpdateMasterRowResult(tab, order_id, fp, upd) ==
    LET n == Cardinality({ i \in 1..Len(tab) : FpMatches(tab[i], order_id, fp) })
    IN  IF DOMAIN ValidUpdates(upd) = {}
        THEN [tab |-> tab, resp |-> [status |-> 200, result |-> "no changes"]]
        ELSE IF ~((DOMAIN ValidUpdates(upd)) \cup (DOMAIN fp) \subseteq DbCols)
        THEN [tab |-> tab, resp |-> [status |-> 500, result |-> "error"]]
        ELSE IF n = 0
        THEN [tab |-> tab, resp |-> [status |-> 409, result |-> "conflict"]]
        ELSE [tab |-> FpUpdated(tab, order_id, fp, upd),
              resp |-> [status |-> 200, result |-> "success", updated |-> n]]

\* sanitize_df / clean_dict of the frontend: None becomes "", the rest text
CleanDict(d) == [k \in DOMAIN d |-> IF d[k] = NULL THEN "" ELSE PyStr(d[k])]

----------------------------------------------------------------------------
(* skip_order *)

\* the rows selected by order_id and, when given, sku
SkipHits(tab, order_id, sku) ==
    { i \in 1..Len(tab) :
        /\ tab[i]["ORDER ID"] # NULL
        /\ tab[i]["ORDER ID"] = order_id
        /\ Truthy(sku) => (tab[i]["SKU"] # NULL /\ tab[i]["SKU"] = sku) }

\* variant: only a missing value marks a free slot
SlotUnusedStrict(val) == ~Truthy(val)

\* "not val or str(val).lower() in ['p', 'nan', 'none', '', '0', '-']"
SlotUnused(val) ==
    ~Truthy(val) \/ Lower(PyStr(val)) \in {"p", "nan", "none", "", "0", "-"}

\* variant: a full row falls back on the last slot
FirstUnusedOrLast(rec) ==
    IF \E j \in 1..NumSkipSlots : SlotUnused(rec[SkipCols[j]])
    THEN CHOOSE j \in 1..NumSkipSlots :
            /\ SlotUnused(rec[SkipCols[j]])
            /\ \A h \in 1..(j - 1) : ~SlotUnused(rec[SkipCols[h]])
    ELSE NumSkipSlots

\* index of the first empty SKIP column of the fetched row, 0 when none
FirstUnused(rec) ==
    IF \E j \in 1..NumSkipSlots : SlotUnused(rec[SkipCols[j]])
    THEN CHOOSE j \in 1..NumSkipSlots :
            /\ SlotUnused(rec[SkipCols[j]])
            /\ \A h \in 1..(j - 1) : ~SlotUnused(rec[SkipCols[h]])
    ELSE 0

\* the table after UPDATE ... SET target_col = :val WHERE order (and sku)
SkipWritten(tab, order_id, sku, slot, val) ==
    [i \in 1..Len(tab) |->
        IF i \in SkipHits(tab, order_id, sku)
        THEN [tab[i] EXCEPT ![SkipCols[slot]] = val]
        ELSE tab[i]]

----------------------------------------------------------------------------
(* delete_master_row *)

\* the WHERE clause of the DELETE: order id and SKU of original_row only
DeleteMatches(rec, order_id, fp) ==
    LET sku == IF "SKU" \in DOMAIN fp THEN fp["SKU"] ELSE NULL
    IN  /\ rec["ORDER ID"] # NULL
        /\ rec["ORDER ID"] = Strip(PyStr(order_id))
        /\ IF sku = NULL \/ Lower(PyStr(sku)) \in {"nan", "none", ""}
           THEN rec["SKU"] = NULL \/ rec["SKU"] = "" \/ rec["SKU"] = "nan"
           ELSE rec["SKU"] # NULL /\ Strip(rec["SKU"]) = Strip(PyStr(sku))

\* the rows of tab the DELETE keeps, in order
RECURSIVE Kept(_, _, _)
Kept(tab, order_id, fp) ==
    IF tab = << >> THEN << >>
    ELSE IF DeleteMatches(Head(tab), order_id, fp)
         THEN Kept(Tail(tab), order_id, fp)
         ELSE << Head(tab) >> \o Kept(Tail(tab), order_id, fp)

----------------------------------------------------------------------------
(* Requests the clients send *)

D1 == "2026-02-03"
D2 == "2026-02-04"

\* a row of request.data carrying the given columns
Row(oid, sku, name) ==
    [k \in {"ORDER ID", "SKU", "NAME"} |->
        CASE k = "ORDER ID" -> oid [] k = "SKU" -> sku [] OTHER -> name]

\* a row of request.data without a SKU key
RowNoSku(oid, name) ==
    [k \in {"ORDER ID", "NAME"} |-> IF k = "ORDER ID" THEN oid ELSE name]

\* variant: only the zero columns are defaulted
ZeroDefaultsOnly(k) ==
    IF k \in SkipColSet \cup {"STATUS"} THEN "0" ELSE ""

\* the columns vlookup_sku defaults before the later stages run:
\* SKIP1..SKIP20 are "0"
MasterDefault(k) ==
    IF k \in SkipColSet \cup {"STATUS"} THEN "0"
    ELSE IF k \in {"DELSAT", "DELSUN", "TS NOTES"} THEN "-"
    ELSE ""

\* a row as create_master_transformations emits it (all master columns)
PipelineRow(oid, sku, date, name) ==
    [k \in DbCols |->
        CASE k = "ORDER ID" -> oid
          [] k = "SKU"      -> sku
          [] k = "DATE"     -> date
          [] k = "NAME"     -> name
          [] OTHER          -> MasterDefault(k)]

\* a master row whose first n skip slots hold dates
RowWithSkips(oid, sku, name, n) ==
    [k \in DbCols |->
        CASE k = "ORDER ID" -> oid
          [] k = "SKU"      -> sku
          [] k = "DATE"     -> "2026-02-02"
          [] k = "NAME"     -> name
          [] OTHER          ->
               IF \E i \in 1..n : SkipCols[i] = k THEN D1 ELSE "0"]

UploadRows ==
    { Row("1001", "A", "x"), Row("1001", "A", "y"),
      Row(" 1001", "A", "x"), Row("1001", "None", "x"), Row("1001", "", ""),
      RowNoSku("1001", "y"),
      Row("", "A", "x"), [k \in {"FOO"} |-> "1"],
      Row("1002", "A", BadValue),
      PipelineRow("1001", "A", "2-Feb", "x") }

Batches ==
    UNION { [1..n -> UploadRows] : n \in 0..MaxBatch }

OrderIdArgs == {"1001", "1002"}
SkuArgs == {NULL, "A", "B"}
SkipDates == {D1, D2}

\* original_row values a client may send for the update and delete requests
Fingerprints ==
    { [k \in {"SKU"} |-> v] : v \in {"A", "None", NULL} }
    \cup { [k \in {"SKU", "NAME"} |-> IF k = "SKU" THEN "A" ELSE v] :
              v \in {"x", "nan"} }
    \cup { [k \in {"NAME", "ORDER ID"} |-> IF k = "NAME" THEN "x" ELSE "1002"] }

\* updates values a client may send
UpdateSets ==
    { [k \in {"NAME"} |-> v] : v \in {"y", ""} }
    \cup { [k \in {"SKU"} |-> "B"],
           [k \in {"SKIP1"} |-> D2],
           [k \in {"ORDER ID"} |-> "1002"],
           [k \in {"NAME", "FOO"} |-> "y"] }

\* tables the service may find when it starts serving
InitStores ==
    { << >>,
      << InsertRecord(ValidRow(PipelineRow("1001", "A", "2026-02-02", "x"))),
         InsertRecord(ValidRow(PipelineRow("1001", "B", "2026-02-02", "x"))) >>,
      << InsertRecord(ValidRow(RowWithSkips("1002", "A", "x", NumSkipSlots - 1))),
         InsertRecord(ValidRow(RowNoSku("1002", "x"))) >> }

----------------------------------------------------------------------------
(* The transformation pipeline: dates *)

\* the calendar days the model tells apart, as strftime("%Y-%m-%d") prints
\* them; one week per line, Monday first
IsoDays ==
    << "2026-01-26", "2026-01-27", "2026-01-28", "2026-01-29", "2026-01-30", "2026-01-31", "2026-02-01",
       "2026-02-02", "2026-02-03", "2026-02-04", "2026-02-05", "2026-02-06", "2026-02-07", "2026-02-08",
       "2026-02-09", "2026-02-10", "2026-02-11", "2026-02-12", "2026-02-13", "2026-02-14", "2026-02-15",
       "2026-02-16", "2026-02-17", "2026-02-18", "2026-02-19", "2026-02-20", "2026-02-21", "2026-02-22",
       "2026-02-23", "2026-02-24", "2026-02-25", "2026-02-26", "2026-02-27", "2026-02-28", "2026-03-01",
       "2026-03-02", "2026-03-03", "2026-03-04", "2026-03-05", "2026-03-06", "2026-03-07", "2026-03-08" >>

NumDays == Len(IsoDays)
Days == 1..NumDays

\* datetime.weekday(): 0 is Monday, 6 is Sunday
Weekday(d) == (d - 1) % 7

\* the same days written month first, which pd.to_datetime also reads
UsDays ==
    [d \in {8, 11} |-> IF d = 8 THEN "02/02/2026" ELSE "02/05/2026"]

\* the texts pd.to_datetime turns into NaT without raising
NatStrings == {"", "nan", "NaT"}

NaT == [kind |-> "NaT"]
Raised == [kind |-> "raised"]
Timestamp(d) == [kind |-> "date", day |-> d]

\* pd.to_datetime of a text: a day, NaT, or an exception
ToDatetime(v) ==
    IF \E d \in Days : IsoDays[d] = v
    THEN Timestamp(CHOOSE d \in Days : IsoDays[d] = v)
    ELSE IF \E d \in DOMAIN UsDays : UsDays[d] = v
    THEN Timestamp(CHOOSE d \in DOMAIN UsDays : UsDays[d] = v)
    ELSE IF v \in NatStrings THEN NaT
    ELSE Raised

\* Timestamp.strftime("%Y-%m-%d")
Strftime(d) == IsoDays[d]

----------------------------------------------------------------------------
(* expand_subscriptions *)

\* the outcome of a call: it returns a value, raises, or never returns
Returned(v) == [kind |-> "returned", value |-> v]
Diverges == [kind |-> "diverges"]
Raises == [kind |-> "raises"]

BundleSku == "STASH-TD-TS01-W05-ONCA-VEG08"

\* sku_map: the bundle keys and the SKUs each is expanded into
sku_map ==
    [k \in {BundleSku} |->
        << "TPROS-TD-MT91-T01-ONCA-TPROS", "FIERY-TD-MT01-T01-ONCA-FGBVG",
           "LALKT-TD-MT31-T01-ONCA-SWAGT", "ANGTH-TD-MT40-T01-ONCA-ANGVG",
           "KRISK-TD-MT01-T01-ONCA-KRIVG" >>]

ExpandDays == 5

\* the while loop of get_next_business_days, from the day curr on
RECURSIVE BusinessDaysFrom(_, _, _)
BusinessDaysFrom(curr, days, num_days) ==
    IF Len(days) >= num_days THEN days
    ELSE BusinessDaysFrom(curr + 1,
                          IF Weekday(curr) < 5 THEN Append(days, curr) ELSE days,
                          num_days)

\* variant: the count starts on the day after the start date
BusinessDaysAfter(start_date, num_days) ==
    IF start_date = NaT THEN Diverges
    ELSE Returned(BusinessDaysFrom(start_date.day + 1, << >>, num_days))

\* get_next_business_days: on NaT, weekday() is nan and NaT + 1 day is NaT, so
\* nothing is ever appended
get_next_business_days(start_date, num_days) ==
    IF start_date = NaT THEN Diverges
    ELSE Returned(BusinessDaysFrom(start_date.day, << >>, num_days))

Min(a, b) == IF a <= b THEN a ELSE b

\* the rows one row of the frame contributes; e is [label, row], the label
\* being the row's index label, which row.copy() keeps
ExpandRow(e) ==
    IF e.row["SKU"] \notin DOMAIN sku_map THEN Returned(<< e >>)
    ELSE LET start_date == ToDatetime(e.row["START DATE"])
         IN  IF start_date = Raised THEN Returned(<< e >>)
             ELSE LET business_days ==
                          get_next_business_days(start_date, ExpandDays)
                  IN  IF business_days = Diverges THEN Diverges
                      ELSE Returned(
                             [i \in 1..Min(Len(sku_map[e.row["SKU"]]),
                                           Len(business_days.value)) |->
                                [label |-> e.label,
                                 row |-> [e.row EXCEPT
                                   !["SKU"] = sku_map[e.row["SKU"]][i],
                                   !["START DATE"] =
                                       Strftime(business_days.value[i])]]])

\* expand_subscriptions on a frame (a sequence of labelled rows)
RECURSIVE ExpandSubscriptions(_)
ExpandSubscriptions(frame) ==
    IF frame = << >> THEN Returned(<< >>)
    ELSE LET first == ExpandRow(Head(frame))
             rest  == ExpandSubscriptions(Tail(frame))
         IN  IF first = Diverges \/ rest = Diverges THEN Diverges
             ELSE Returned(first.value \o rest.value)

----------------------------------------------------------------------------
(* vlookup_sku and update_label *)

\* the master columns the model follows
MasterCols ==
    {"ORDER ID", "SKU", "SELLER", "DELIVERY", "MEAL TYPE", "MEAL PLAN",
     "PRODUCT", "PRODUCT CODE", "CLABL", "LABEL", "DAYS", "START DATE",
     "END DATE", "STATUS", "DELSAT", "DELSUN", "TS NOTES", "DESCRIPTION"}
        \cup SkipColSet

\* the master columns filled from the reference record, with the reference
\* column each is read from
RefCols ==
    [k \in {"SELLER", "DELIVERY", "MEAL TYPE", "MEAL PLAN", "PRODUCT",
            "PRODUCT CODE", "DESCRIPTION"} |->
        IF k = "PRODUCT CODE" THEN "LABEL" ELSE k]

\* x_mapping, the durations written as text
x_mapping ==
    [plan \in {"Trial", "Weekly", "Monthly", "Weekly (4 Days)",
               "Monthly (16 Days)", "Weekly (3 Days)", "Monthly (12 Days)"} |->
        CASE plan = "Trial"             -> "1"
          [] plan = "Weekly"            -> "5"
          [] plan = "Monthly"           -> "20"
          [] plan = "Weekly (4 Days)"   -> "4"
          [] plan = "Monthly (16 Days)" -> "16"
          [] plan = "Weekly (3 Days)"   -> "3"
          [] plan = "Monthly (12 Days)" -> "12"]

\* variant: a plan outside the table counts as a single day
CalcDaysDefaultOne(plan) ==
    IF Strip(PyStr(plan)) \in DOMAIN x_mapping
    THEN x_mapping[Strip(PyStr(plan))] ELSE "1"

calc_days(plan) ==
    IF Strip(PyStr(plan)) \in DOMAIN x_mapping
    THEN x_mapping[Strip(PyStr(plan))] ELSE ""

\* steps 1, 3 and 5: the empty master frame with the columns copied by
\* position from the export frame
BaseMapping(export) ==
    [p \in 1..Len(export) |->
        [label |-> export[p].label,
         row |-> [k \in MasterCols |->
                    IF k \in {"ORDER ID", "SKU", "CLABL", "START DATE"}
                    THEN export[p].row[k] ELSE ""]]]

\* step 4, the lookup of the row at position p: iloc[get_loc(idx), ...] and
\* loc[idx, ...] write to every row that carries the index label idx
LookupWritten(master, export, ref_dict, p) ==
    LET sku == Strip(PyStr(export[p].row["SKU"]))
    IN  IF sku \notin DOMAIN ref_dict THEN master
        ELSE [q \in 1..Len(master) |->
                IF master[q].label = export[p].label
                THEN [master[q] EXCEPT !.row =
                        [k \in MasterCols |->
                            IF k \in DOMAIN RefCols
                            THEN ref_dict[sku][RefCols[k]] ELSE @[k]]]
                ELSE master[q]]

\* the lookups of the rows at positions p..Len(export), in iteration order
RECURSIVE LookupsFrom(_, _, _, _)
LookupsFrom(master, export, ref_dict, p) ==
    IF p > Len(export) THEN master
    ELSE LookupsFrom(LookupWritten(master, export, ref_dict, p),
                     export, ref_dict, p + 1)

\* steps 6 and 7: DAYS from the looked-up plan, then the fixed columns
DaysAndDefaults(master) ==
    [p \in 1..Len(master) |->
        [master[p] EXCEPT !.row =
            [k \in MasterCols |->
                IF k = "DAYS" THEN calc_days(@["MEAL PLAN"])
                ELSE IF MasterDefault(k) # "" THEN MasterDefault(k)
                ELSE @[k]]]]

vlookup_sku(export, ref_dict) ==
    DaysAndDefaults(LookupsFrom(BaseMapping(export), export, ref_dict, 1))

\* update_label: CLABL when it has content, the catalog label otherwise
update_label(master) ==
    [p \in 1..Len(master) |->
        [master[p] EXCEPT !.row["LABEL"] =
            IF Strip(PyStr(master[p].row["CLABL"]))
                  \notin {"0", "0.0", "nan", "None", ""}
            THEN Strip(PyStr(master[p].row["CLABL"]))
            ELSE master[p].row["PRODUCT CODE"]]]

----------------------------------------------------------------------------
(* fill_end_date *)

\* int(float(days_val)) on the DAYS texts the model uses; other texts raise
DaysNumber ==
    [v \in {"0", "1", "2", "3", "3.0", "4", "5", "12", "16", "20"} |->
        CASE v = "0" -> 0    [] v = "1" -> 1    [] v = "2" -> 2
          [] v = "3" -> 3    [] v = "3.0" -> 3  [] v = "4" -> 4
          [] v = "5" -> 5    [] v = "12" -> 12  [] v = "16" -> 16
          [] v = "20" -> 20]

\* the days listed in SKIP1..SKIP20 that pd.to_datetime reads
Holidays(row) ==
    { ToDatetime(Strip(PyStr(row[k]))).day :
        k \in { c \in SkipColSet :
                  /\ Strip(PyStr(row[c]))
                        \notin {"", "0", "0.0", "nan", "None", "-"}
                  /\ ToDatetime(Strip(PyStr(row[c]))).kind = "date" } }

\* variant: the default Monday-to-Friday calendar, whatever the row says
WeekdaysOnly(d, holidays, sat_delivery, sun_delivery) ==
    Weekday(d) < 5

\* the day is a working day of CustomBusinessDay(holidays, weekmask)
OnCalendar(d, holidays, sat_delivery, sun_delivery) ==
    /\ d \notin holidays
    /\ \/ Weekday(d) < 5
       \/ Weekday(d) = 5 /\ sat_delivery
       \/ Weekday(d) = 6 /\ sun_delivery

\* np.busday_offset(d, n, roll="backward"): back to a working day, then n
\* working days forward
RECURSIVE RollBackward(_, _, _, _)
RollBackward(d, holidays, sat_delivery, sun_delivery) ==
    IF OnCalendar(d, holidays, sat_delivery, sun_delivery) THEN d
    ELSE RollBackward(d - 1, holidays, sat_delivery, sun_delivery)

RECURSIVE Forward(_, _, _, _, _)
Forward(d, n, holidays, sat_delivery, sun_delivery) ==
    IF n = 0 THEN d
    ELSE IF OnCalendar(d + 1, holidays, sat_delivery, sun_delivery)
    THEN Forward(d + 1, n - 1, holidays, sat_delivery, sun_delivery)
    ELSE Forward(d + 1, n, holidays, sat_delivery, sun_delivery)

BusdayOffset(d, n, holidays, sat_delivery, sun_delivery) ==
    Forward(RollBackward(d, holidays, sat_delivery, sun_delivery), n,
            holidays, sat_delivery, sun_delivery)

\* variant: the calendar offset is applied for every duration, so a start on
\* a day off the calendar is rolled back even for a single day
AlwaysOffset(row) ==
    LET start_val == Strip(PyStr(row["START DATE"]))
        days_val  == row["DAYS"]
        start_dt  == ToDatetime(start_val)
        sat_delivery == Lower(Strip(PyStr(row["DELSAT"]))) = "yes"
        sun_delivery == Lower(Strip(PyStr(row["DELSUN"]))) = "yes"
        num_days ==
            IF Truthy(days_val) /\ days_val \in DOMAIN DaysNumber
            THEN IF DaysNumber[days_val] > 1 THEN DaysNumber[days_val] ELSE 1
            ELSE 1
    IN  IF start_val = "P" THEN Returned("PAUSE")
        ELSE IF start_val = "-" \/ start_val = "" \/ start_val = "0"
        THEN Returned("-")
        ELSE IF start_dt = Raised THEN Returned(start_val)
        ELSE IF start_dt = NaT THEN Raises
        ELSE Returned(Strftime(
                 BusdayOffset(start_dt.day, num_days - 1, Holidays(row),
                              sat_delivery, sun_delivery)))

\* calculate_end_date_row: the END DATE of one row, or an exception
calculate_end_date_row(row) ==
    LET start_val == Strip(PyStr(row["START DATE"]))
        days_val  == row["DAYS"]
        start_dt  == ToDatetime(start_val)
        sat_delivery == Lower(Strip(PyStr(row["DELSAT"]))) = "yes"
        sun_delivery == Lower(Strip(PyStr(row["DELSUN"]))) = "yes"
    IN  IF start_val = "P" THEN Returned("PAUSE")
        ELSE IF start_val = "-" \/ start_val = "" \/ start_val = "0"
        THEN Returned("-")
        ELSE IF start_dt = Raised THEN Returned(start_val)
        ELSE IF start_dt = NaT THEN Raises
        ELSE IF Truthy(days_val) /\ days_val \notin DOMAIN DaysNumber
        THEN Returned(Strftime(start_dt.day))
        ELSE LET num_days ==
                     IF Truthy(days_val) THEN DaysNumber[days_val] ELSE 1
             IN  IF num_days > 1
                 THEN Returned(Strftime(
                         BusdayOffset(start_dt.day, num_days - 1, Holidays(row),
                                      sat_delivery, sun_delivery)))
                 ELSE Returned(Strftime(start_dt.day))

\* fill_end_date on a frame: END DATE of every row, unless a row raises
fill_end_date(master) ==
    IF \E p \in 1..Len(master) : calculate_end_date_row(master[p].row) = Raises
    THEN Raises
    ELSE Returned(
           [p \in 1..Len(master) |->
              [master[p] EXCEPT !.row["END DATE"] =
                  calculate_end_date_row(master[p].row).value]])

----------------------------------------------------------------------------
(* fill_status *)

\* variant: the cancelled sentinel is looked at before the paused one
CancelledFirst(today, row) ==
    LET start_val == Strip(PyStr(row["START DATE"]))
        end_val   == Strip(PyStr(row["END DATE"]))
        start_dt  == ToDatetime(start_val)
        end_dt    == ToDatetime(end_val)
    IN  IF start_val = "-" \/ end_val = "-" THEN "CANCELLED"
        ELSE IF start_val = "P" \/ end_val = "PAUSE" THEN "PAUSE"
        ELSE IF start_dt.kind # "date" \/ end_dt.kind # "date" THEN "ERROR"
        ELSE IF today = end_dt.day THEN "LAST DAY"
        ELSE IF start_dt.day <= today /\ today <= end_dt.day THEN "WIP"
        ELSE IF today < start_dt.day THEN "TBS"
        ELSE "DELIVERED"

\* variant: the range test comes before the test of the last day
WipBeforeLastDay(today, row) ==
    LET start_val == Strip(PyStr(row["START DATE"]))
        end_val   == Strip(PyStr(row["END DATE"]))
        start_dt  == ToDatetime(start_val)
        end_dt    == ToDatetime(end_val)
    IN  IF start_val = "P" \/ end_val = "PAUSE" THEN "PAUSE"
        ELSE IF start_val = "-" \/ end_val = "-" THEN "CANCELLED"
        ELSE IF start_dt.kind # "date" \/ end_dt.kind # "date" THEN "ERROR"
        ELSE IF start_dt.day <= today /\ today <= end_dt.day THEN "WIP"
        ELSE IF today = end_dt.day THEN "LAST DAY"
        ELSE IF today < start_dt.day THEN "TBS"
        ELSE "DELIVERED"

\* variant: the last day already counts as delivered
DeliveredOnLastDay(today, row) ==
    LET start_val == Strip(PyStr(row["START DATE"]))
        end_val   == Strip(PyStr(row["END DATE"]))
        start_dt  == ToDatetime(start_val)
        end_dt    == ToDatetime(end_val)
    IN  IF start_val = "P" \/ end_val = "PAUSE" THEN "PAUSE"
        ELSE IF start_val = "-" \/ end_val = "-" THEN "CANCELLED"
        ELSE IF start_dt.kind # "date" \/ end_dt.kind # "date" THEN "ERROR"
        ELSE IF today >= end_dt.day THEN "DELIVERED"
        ELSE IF start_dt.day <= today THEN "WIP"
        ELSE "TBS"

\* calculate_status_row with today = pd.Timestamp.now().normalize(); NaT has
\* no normalize(), so it ends in the except branch like an unreadable text
calculate_status_row(today, row) ==
    LET start_val == Strip(PyStr(row["START DATE"]))
        end_val   == Strip(PyStr(row["END DATE"]))
        start_dt  == ToDatetime(start_val)
        end_dt    == ToDatetime(end_val)
    IN  IF start_val = "P" \/ end_val = "PAUSE" THEN "PAUSE"
        ELSE IF start_val = "-" \/ end_val = "-" THEN "CANCELLED"
        ELSE IF start_dt.kind # "date" \/ end_dt.kind # "date" THEN "ERROR"
        ELSE IF today = end_dt.day THEN "LAST DAY"
        ELSE IF start_dt.day <= today /\ today <= end_dt.day THEN "WIP"
        ELSE IF today < start_dt.day THEN "TBS"
        ELSE "DELIVERED"

fill_status(today, master) ==
    [p \in 1..Len(master) |->
        [master[p] EXCEPT !.row["STATUS"] =
            calculate_status_row(today, master[p].row)]]

\* create_master_transformations, with the catalog and the clock as arguments
create_master_transformations(export, ref_dict, today) ==
    LET ended == fill_end_date(update_label(vlookup_sku(export, ref_dict)))
    IN  IF ended = Raises THEN Raises
        ELSE Returned(fill_status(today, ended.value))

----------------------------------------------------------------------------
(* Inputs of the transformation pipeline *)

\* a row of the export frame (create_export_dataframe), columns by name
ExportRow(oid, sku, start) ==
    [k \in {"ORDER ID", "SKU", "CLABL", "START DATE"} |->
        CASE k = "ORDER ID"   -> oid
          [] k = "SKU"        -> sku
          [] k = "CLABL"      -> ""
          [] k = "START DATE" -> start]

ExportSkus == {BundleSku, "PLAIN-A", "PLAIN-Z"}
ExportStarts ==
    {"2026-02-02", "2026-02-05", "2026-02-07", "02/02/2026", "TBD", ""}

\* export frames: rows labelled 0, 1, ... by the RangeIndex
ExportFrames ==
    UNION { [1..n -> { ExportRow("1001", sku, start) :
                          sku \in ExportSkus, start \in ExportStarts }] :
            n \in 1..MaxFrame }

Labelled(rows) == [p \in 1..Len(rows) |-> [label |-> p - 1, row |-> rows[p]]]

\* a record of data/sku-ref.csv as ref_dict holds it
RefRecord(seller, plan) ==
    [k \in {"SELLER", "DELIVERY", "MEAL TYPE", "MEAL PLAN", "PRODUCT", "LABEL",
            "DESCRIPTION"} |->
        CASE k = "SELLER"    -> seller
          [] k = "MEAL PLAN" -> plan
          [] OTHER           -> seller \o "/" \o k]

MealPlans == DOMAIN x_mapping \cup {"Weekly ", "Biweekly", ""}

\* ref_dict: empty when the file is absent or unreadable
NoCatalog == [k \in {} |-> RefRecord("", "")]

Catalogs ==
    {NoCatalog} \cup
    { [k \in {"PLAIN-A", sku_map[BundleSku][1], sku_map[BundleSku][2]} |->
          CASE k = "PLAIN-A"              -> RefRecord("SELLA", plan)
            [] k = sku_map[BundleSku][1]  -> RefRecord("TPROS", "Trial")
            [] k = sku_map[BundleSku][2]  -> RefRecord("FIERY", "Weekly")] :
      plan \in MealPlans }

\* today, as a day of IsoDays: the first run and the last run followed
FirstToday == 7
LastToday == 14

\* a master row as fill_end_date and fill_status may be handed it
MasterRow(start, end, days, delsat, delsun, skips) ==
    [k \in MasterCols |->
        CASE k = "START DATE" -> start
          [] k = "END DATE"   -> end
          [] k = "DAYS"       -> days
          [] k = "DELSAT"     -> delsat
          [] k = "DELSUN"     -> delsun
          [] k \in SkipColSet ->
               IF \E i \in 1..Len(skips) : SkipCols[i] = k
               THEN skips[CHOOSE i \in 1..Len(skips) : SkipCols[i] = k]
               ELSE "0"
          [] OTHER            -> ""]

EndDateRows ==
    { MasterRow(start, "", days, delsat, delsun, skips) :
        start \in {"2026-02-02", "2026-02-06", "2026-02-07", "02/02/2026",
                   "P", "-", "", "0", "TBD", " TBD ", "nan", "NaT"},
        days \in {"", "0", "1", "3", "3.0", "5", "20", "abc"},
        delsat \in {"-", "yes", "Yes"},
        delsun \in {"-", " yes"},
        skips \in { << >>, <<"2026-02-03">>, <<"2026-02-03", "2026-02-09">>,
                    <<"TBD", "2026-02-04">>, <<"2026-02-07", "-">>,
                    <<"2026-02-02">> } }

StatusRows ==
    { MasterRow(start, end, "", "-", "-", << >>) :
        start \in {"2026-02-03", "02/02/2026", "P", "-", "", "TBD", "nan"},
        end \in {"2026-02-03", "2026-02-05", "2026-02-02", "PAUSE", "-", "",
                 "TBD", "P"} }

\* the calls of the pipeline the model makes
PipelineCalls ==
    { [op |-> "process", frame |-> Labelled(f), ref_dict |-> c,
       today |-> FirstToday] : f \in ExportFrames, c \in Catalogs }
    \cup { [op |-> "fill_end_date", row |-> r] : r \in EndDateRows }
    \cup { [op |-> "fill_status", row |-> r, today |-> t] :
              r \in StatusRows, t \in {FirstToday, FirstToday + 2} }

----------------------------------------------------------------------------
(* State machine *)

Init ==
    /\ store \in InitStores
    /\ pc = "idle"
    /\ batch = << >>
    /\ idx = 1
    /\ txn = << >>
    /\ aborted = FALSE
    /\ counts = ZeroCounts
    /\ log = << >>
    /\ replay = FALSE
    /\ snap = NoSnap
    /\ req = NoReq
    /\ resp = NoResp
    /\ ops = 0
    /\ uploads = 0

\* engine.connect() and the start of the loop over request.data
Begin(b, again) ==
    /\ pc = "idle"
    /\ ops < MaxOps
    /\ uploads < MaxUploads
    /\ Len(store) + Len(b) <= MaxRows
    /\ pc' = "upload"
    /\ batch' = b
    /\ idx' = 1
    /\ txn' = store
    /\ aborted' = FALSE
    /\ counts' = ZeroCounts
    /\ log' = << >>
    /\ replay' = again
    /\ req' = [op |-> "upload",
                edit |-> IF req.op \in {"skip", "update"} /\ resp.status = 200
                         THEN req.edit ELSE {}]
    /\ resp' = NoResp
    /\ UNCHANGED <<store, snap, ops, uploads>>

UploadStart == \E b \in Batches : Begin(b, FALSE)

\* the same client submits the batch of the upload just served once more
UploadAgain ==
    /\ req.op = "upload"
    /\ resp.status = 200
    /\ ~replay
    /\ Begin(batch, TRUE)

Did(what, tab, ab, cnt) ==
    /\ log' = Append(log, what)
    /\ txn' = tab
    /\ aborted' = ab
    /\ counts' = cnt

\* one iteration of "for row in data"
UploadRow ==
    /\ pc = "upload"
    /\ idx <= Len(batch)
    /\ idx' = idx + 1
    /\ LET vrow == ValidRow(batch[idx])
           oid  == RowOid(vrow)
           sku  == RowSku(vrow)
           hits == KeyMatches(txn, oid, sku)
       IN  IF DOMAIN vrow = {} \/ oid = ""
           THEN Did("ignored", txn, aborted, counts)
           ELSE IF aborted
           THEN Did("error", txn, aborted, Bump(counts, "errors"))
           ELSE IF hits = {}
           THEN IF InsertRejected(vrow)
                THEN Did("error", txn, TRUE, Bump(counts, "errors"))
                ELSE Did("inserted", Append(txn, InsertRecord(vrow)), FALSE,
                         Bump(counts, "inserted"))
           ELSE \E i \in hits :
                  IF IsDuplicate(vrow, txn[i])
                  THEN Did("skipped", txn, aborted, Bump(counts, "skipped"))
                  ELSE IF UpdateMissingBinds(vrow, sku) # {}
                  THEN Did("error", txn, aborted, Bump(counts, "errors"))
                  ELSE IF InsertRejected(vrow)
                  THEN Did("error", txn, TRUE, Bump(counts, "errors"))
                  ELSE Did("updated", UpdateApplied(txn, vrow, oid, sku), FALSE,
                           Bump(counts, "updated"))
    /\ UNCHANGED <<store, pc, batch, replay, snap, req, resp, ops, uploads>>

\* conn.commit() after the loop, and the returned tally
UploadCommit ==
    /\ pc = "upload"
    /\ idx > Len(batch)
    /\ store' = IF aborted THEN store ELSE txn
    /\ pc' = "idle"
    /\ txn' = << >>
    /\ aborted' = FALSE
    /\ resp' = [status |-> 200, tally |-> counts]
    /\ ops' = ops + 1
    /\ uploads' = uploads + 1
    /\ UNCHANGED <<batch, idx, counts, log, replay, snap, req>>

\* a handler other than the upload answers q to request r, leaving table tab
Served(r, q, tab) ==
    /\ pc = "idle"
    /\ ops' = ops + 1
    /\ req' = r
    /\ resp' = q
    /\ store' = tab
    /\ batch' = << >>
    /\ idx' = 1
    /\ counts' = ZeroCounts
    /\ log' = << >>
    /\ replay' = FALSE
    /\ UNCHANGED <<pc, txn, aborted, uploads>>

\* POST /update-master-row with the given arguments
UpdateMasterRowReq(order_id, fp, upd) ==
    LET r == UpdateMasterRowResult(store, order_id, fp, upd)
    IN  /\ Served([op |-> "update", editor |-> 0, edit |-> Edits(store, r.tab)],
                   r.resp, r.tab)
        /\ UNCHANGED snap

UpdateMasterRow ==
    /\ ops < MaxOps
    /\ \E order_id \in OrderIdArgs, fp \in Fingerprints, upd \in UpdateSets :
        UpdateMasterRowReq(order_id, fp, upd)

\* "Refresh Master View": a session loads the table and opens one of its rows
EditorRead ==
    /\ pc = "idle"
    /\ ops < MaxOps
    /\ \E i \in 1..Len(store) :
          snap' = [idx |-> i, row |-> CleanDict(store[i])]
    /\ UNCHANGED <<store, pc, batch, idx, txn, aborted, counts, log, replay,
                   req, resp, ops, uploads>>

\* "Save Changes to DB": the edited cells, with the loaded row as fingerprint;
\* the session keeps the loaded table until its next refresh
EditorSubmitReq(upd) ==
    /\ snap # NoSnap
    /\ Truthy(snap.row["ORDER ID"])
    /\ LET order_id == PyStr(snap.row["ORDER ID"])
           r == UpdateMasterRowResult(store, order_id, CleanDict(snap.row),
                                      CleanDict(upd))
       IN  Served([op |-> "update", editor |-> 1, edit |-> Edits(store, r.tab)],
                  r.resp, r.tab)
    /\ UNCHANGED snap

EditorSubmit == ops < MaxOps /\ \E upd \in UpdateSets : EditorSubmitReq(upd)

\* POST /skip-order with the given arguments; i is the row fetchone() returns
SkipOrderReq(order_id, sku, val, i) ==
    LET hits == SkipHits(store, order_id, sku)
        slot == FirstUnused(store[i])
        tab  == SkipWritten(store, order_id, sku, slot, val)
    IN  /\ i \in hits
        /\ IF slot = 0
           THEN Served([op |-> "skip", row |-> i, edit |-> {}],
                       [status |-> 400], store)
           ELSE Served([op |-> "skip", row |-> i, edit |-> Edits(store, tab)],
                       [status |-> 200, column |-> SkipCols[slot]], tab)
        /\ UNCHANGED snap

\* POST /skip-order for a key no row has
SkipOrderNotFound(order_id, sku) ==
    /\ SkipHits(store, order_id, sku) = {}
    /\ Served([op |-> "skip", row |-> 0, edit |-> {}], [status |-> 404], store)
    /\ UNCHANGED snap

SkipOrderAny ==
    \E order_id \in OrderIdArgs, sku \in SkuArgs :
        \/ SkipOrderNotFound(order_id, sku)
        \/ \E val \in SkipDates, i \in 1..Len(store) :
              SkipOrderReq(order_id, sku, val, i)

SkipOrder == ops < MaxOps /\ SkipOrderAny

\* the position of row i of tab among the rows the DELETE keeps, 0 when gone
RowAfterDelete(tab, order_id, fp, i) ==
    IF i = 0 \/ DeleteMatches(tab[i], order_id, fp) THEN 0
    ELSE Cardinality({ j \in 1..i : ~DeleteMatches(tab[j], order_id, fp) })

\* POST /remove-master-record with the given arguments
DeleteMasterRowReq(order_id, fp) ==
    LET kept == Kept(store, order_id, fp)
    IN  /\ Served([op |-> "delete"],
                  IF Len(kept) = Len(store)
                  THEN [status |-> 404]
                  ELSE [status |-> 200, deleted |-> Len(store) - Len(kept)],
                  kept)
        /\ snap' = IF snap = NoSnap THEN NoSnap
                    ELSE [snap EXCEPT
                            !.idx = RowAfterDelete(store, order_id, fp, @)]

DeleteMasterRow ==
    /\ ops < MaxOps
    /\ \E order_id \in OrderIdArgs, fp \in Fingerprints :
        DeleteMasterRowReq(order_id, fp)

Next ==
    \/ UploadStart
    \/ UploadAgain
    \/ UploadRow
    \/ UploadCommit
    \/ UpdateMasterRow
    \/ EditorRead
    \/ EditorSubmit
    \/ SkipOrder
    \/ DeleteMasterRow

Spec == Init /\ [][Next]_vars

\* skip appends only, on a table that holds rows, followed further
InitSkip == Init /\ store # << >>

SkipOrderDeep == ops < MaxAppends /\ SkipOrderAny

NextSkip == SkipOrderDeep

SpecSkip == InitSkip /\ [][NextSkip]_vars

\* conditional updates only, from sessions and from other clients, on a table
\* that holds rows, followed further
InitEdit == Init /\ store # << >>

UpdateDeep ==
    /\ ops < MaxEdits
    /\ \E order_id \in OrderIdArgs, fp \in Fingerprints, upd \in UpdateSets :
        UpdateMasterRowReq(order_id, fp, upd)

SubmitDeep == ops < MaxEdits /\ \E upd \in UpdateSets : EditorSubmitReq(upd)

NextEdit ==
    \/ EditorRead
    \/ UpdateDeep
    \/ SubmitDeep

SpecEdit == InitEdit /\ [][NextEdit]_vars

----------------------------------------------------------------------------
(* State machine of the transformation pipeline: req is the call, resp the *)
(* stage reached and its outcome                                           *)

InitPipe ==
    /\ store = << >>
    /\ pc = "idle"
    /\ batch = << >>
    /\ idx = 1
    /\ txn = << >>
    /\ aborted = FALSE
    /\ counts = ZeroCounts
    /\ log = << >>
    /\ replay = FALSE
    /\ snap = NoSnap
    /\ req \in PipelineCalls
    /\ resp = NoResp
    /\ ops = 0
    /\ uploads = 0

Stage(name, outcome) ==
    /\ resp' = [stage |-> name, out |-> outcome]
    /\ UNCHANGED <<store, pc, batch, idx, txn, aborted, counts, log, replay,
                   snap, req, ops, uploads>>

\* process_transformations: run_post_edit_transformations, as far as
\* expand_subscriptions
ExpandStage ==
    /\ req.op = "process"
    /\ resp = NoResp
    /\ Stage("expanded", ExpandSubscriptions(req.frame))

\* create_master_transformations, one function at a time
VlookupStage ==
    /\ req.op = "process"
    /\ resp # NoResp
    /\ resp.stage = "expanded"
    /\ resp.out.kind = "returned"
    /\ Stage("looked up", Returned(vlookup_sku(resp.out.value, req.ref_dict)))

LabelStage ==
    /\ req.op = "process"
    /\ resp # NoResp
    /\ resp.stage = "looked up"
    /\ Stage("labelled", Returned(update_label(resp.out.value)))

EndDateStage ==
    /\ req.op = "process"
    /\ resp # NoResp
    /\ resp.stage = "labelled"
    /\ Stage("ended", fill_end_date(resp.out.value))

StatusStage ==
    /\ req.op = "process"
    /\ resp # NoResp
    /\ resp.stage = "ended"
    /\ resp.out.kind = "returned"
    /\ Stage("done", Returned(fill_status(req.today, resp.out.value)))

\* fill_end_date on one row
EndDateCall ==
    /\ req.op = "fill_end_date"
    /\ resp = NoResp
    /\ Stage("done", calculate_end_date_row(req.row))

\* fill_status on one row
StatusCall ==
    /\ req.op = "fill_status"
    /\ resp = NoResp
    /\ Stage("done", Returned(calculate_status_row(req.today, req.row)))

\* the next run, a day later, on the same stored dates
NextDayRun ==
    /\ req.op = "fill_status"
    /\ resp # NoResp
    /\ req.today < LastToday
    /\ req' = [req EXCEPT !.today = @ + 1]
    /\ resp' = [stage |-> "done",
                out |-> Returned(calculate_status_row(req.today + 1, req.row))]
    /\ UNCHANGED <<store, pc, batch, idx, txn, aborted, counts, log, replay,
                   snap, ops, uploads>>

NextPipe ==
    \/ ExpandStage
    \/ VlookupStage
    \/ LabelStage
    \/ EndDateStage
    \/ StatusStage
    \/ EndDateCall
    \/ StatusCall
    \/ NextDayRun

SpecPipe == InitPipe /\ [][NextPipe]_vars

----------------------------------------------------------------------------
(* check_duplicate_ids: order IDs are texts over a small alphabet, written *)
(* as sequences of characters so that trimming and removing are computed   *)

MaxIdLen == 3
MaxIds == 2
MaxStored == 1

IdChars == {"#", " ", "7"}

\* the texts of at most MaxIdLen characters
IdTexts == UNION { [1..n -> IdChars] : n \in 0..MaxIdLen }

\* s.strip(), and SQL TRIM(s): the text without its surrounding blanks
TrimBlanks(s) ==
    LET inked == { i \in 1..Len(s) : s[i] # " " }
    IN  IF inked = {} THEN << >>
        ELSE SubSeq(s, CHOOSE i \in inked : \A j \in inked : i <= j,
                       CHOOSE i \in inked : \A j \in inked : i >= j)

\* s.replace("#", ""), and SQL REPLACE(s, '#', '')
RemoveHash(s) == SelectSeq(s, LAMBDA c : c # "#")

\* str(oid).strip().replace("#", "")
PyNormalized(oid) == RemoveHash(TrimBlanks(oid))

\* TRIM(REPLACE("ORDER ID", '#', ''))
SqlNormalized(oid) == TrimBlanks(RemoveHash(oid))

\* normalized_input: the normal forms of the non-empty input IDs
normalized_input(order_ids) ==
    LET kept == SelectSeq(order_ids, LAMBDA oid : oid # << >>)
    IN  [i \in 1..Len(kept) |-> PyNormalized(kept[i])]

\* the ORDER IDs the SELECT returns
DuplicateQuery(tab, wanted) ==
    { tab[i]["ORDER ID"] : i \in { j \in 1..Len(tab) :
          \E n \in 1..Len(wanted) :
             SqlNormalized(tab[j]["ORDER ID"]) = wanted[n] } }

\* found_original_ids: the input IDs whose normal form a returned row has
found_original_ids(order_ids, result) ==
    LET db_normalized_found == { PyNormalized(r) : r \in result }
    IN  SelectSeq(order_ids,
                  LAMBDA oid : PyNormalized(oid) \in db_normalized_found)

\* the whole handler; params holds order_ids when the query string has any
check_duplicate_ids(tab, params) ==
    IF "order_ids" \notin DOMAIN params \/ params.order_ids = << >>
    THEN [status |-> 200, existing_ids |-> << >>, queried |-> FALSE]
    ELSE IF normalized_input(params.order_ids) = << >>
    THEN [status |-> 200, existing_ids |-> << >>, queried |-> FALSE]
    ELSE [status |-> 200,
          existing_ids |->
              found_original_ids(params.order_ids,
                  DuplicateQuery(tab, normalized_input(params.order_ids))),
          queried |-> TRUE]

\* ORDER IDs a table can hold: upload_master_data stores no blank ORDER ID
StoredIds == { t \in IdTexts : TrimBlanks(t) # << >> }

\* tables of records of which only the ORDER ID matters here
DupStores ==
    { [i \in 1..n |-> [k \in {"ORDER ID"} |-> f[i]]] :
        n \in 0..MaxStored, f \in [1..MaxStored -> StoredIds] }

\* query strings: without order_ids, or with up to MaxIds of them
DupParams ==
    { [k \in {"table_name"} |-> "historical-data"] }
    \cup { [table_name |-> "historical-data", order_ids |-> ids] :
              ids \in UNION { [1..n -> IdTexts] : n \in 1..MaxIds } }

InitDup ==
    /\ store \in DupStores
    /\ pc = "idle"
    /\ batch = << >>
    /\ idx = 1
    /\ txn = << >>
    /\ aborted = FALSE
    /\ counts = ZeroCounts
    /\ log = << >>
    /\ replay = FALSE
    /\ snap = NoSnap
    /\ req = NoReq
    /\ resp = NoResp
    /\ ops = 0
    /\ uploads = 0

\* GET /check-duplicate-ids
CheckDuplicateIds ==
    /\ req = NoReq
    /\ \E params \in DupParams :
          /\ req' = [op |-> "check", params |-> params]
          /\ resp' = check_duplicate_ids(store, params)
    /\ UNCHANGED <<store, pc, batch, idx, txn, aborted, counts, log, replay,
                   snap, ops, uploads>>

NextDup == CheckDuplicateIds

SpecDup == InitDup /\ [][NextDup]_vars

----------------------------------------------------------------------------
(* skip_order served to several callers at once: each call has its own     *)
(* connection; store is the committed table, txn the table as written by   *)
(* the call whose UPDATE is not yet committed; pc, req, snap and resp are  *)
(* kept per caller                                                         *)

NumCallers == 2

Callers == 1..NumCallers

\* the bodies of the POST /skip-order requests
SkipRequests ==
    [order_id : OrderIdArgs, sku : SkuArgs, skip_date : SkipDates]

InitRace ==
    /\ store \in InitStores \ { << >> }
    /\ pc = [p \in Callers |-> "start"]
    /\ batch = << >>
    /\ idx = 1
    /\ txn = << >>
    /\ aborted = FALSE
    /\ counts = ZeroCounts
    /\ log = << >>
    /\ replay = FALSE
    /\ snap = [p \in Callers |-> NoSnap]
    /\ req \in [Callers -> SkipRequests]
    /\ resp = [p \in Callers |-> NoResp]
    /\ ops = 0
    /\ uploads = 0

\* the call answers and holds no transaction any more
Answer(p, q) ==
    /\ pc' = [pc EXCEPT ![p] = "done"]
    /\ resp' = [resp EXCEPT ![p] = q]

\* the SELECT, fetchone() and the search for target_col; READ COMMITTED: the
\* statement sees the committed table
SkipSelect(p) ==
    /\ pc[p] = "start"
    /\ LET hits == SkipHits(store, req[p].order_id, req[p].sku)
       IN  IF hits = {}
           THEN Answer(p, [status |-> 404]) /\ UNCHANGED snap
           ELSE \E i \in hits :
                   IF FirstUnused(store[i]) = 0
                   THEN Answer(p, [status |-> 400]) /\ UNCHANGED snap
                   ELSE /\ snap' = [snap EXCEPT ![p] =
                                      [idx |-> i, row |-> store[i],
                                       slot |-> FirstUnused(store[i])]]
                        /\ pc' = [pc EXCEPT ![p] = "selected"]
                        /\ UNCHANGED resp
    /\ UNCHANGED <<store, batch, idx, txn, aborted, counts, log, replay, req,
                   ops, uploads>>

\* the UPDATE: it waits while another call's UPDATE is uncommitted, then
\* writes target_col of the rows the WHERE clause selects as committed
SkipWrite(p) ==
    /\ pc[p] = "selected"
    /\ \A q \in Callers : pc[q] # "written"
    /\ txn' = SkipWritten(store, req[p].order_id, req[p].sku, snap[p].slot,
                          req[p].skip_date)
    /\ pc' = [pc EXCEPT ![p] = "written"]
    /\ UNCHANGED <<store, batch, idx, aborted, counts, log, replay, snap, req,
                   resp, ops, uploads>>

\* conn.commit() and the answer
SkipCommit(p) ==
    /\ pc[p] = "written"
    /\ store' = txn
    /\ txn' = << >>
    /\ Answer(p, [status |-> 200, result |-> "success",
                  column |-> SkipCols[snap[p].slot]])
    /\ UNCHANGED <<batch, idx, aborted, counts, log, replay, snap, req, ops,
                   uploads>>

NextRace ==
    \/ \E p \in Callers : SkipSelect(p)
    \/ \E p \in Callers : SkipWrite(p)
    \/ \E p \in Callers : SkipCommit(p)

SpecRace == InitRace /\ [][NextRace]_vars

----------------------------------------------------------------------------
(* Properties of the batch upload *)

\* text comparison in which None and the empty string are the same value
SameText(a, b) ==
    (IF a = NULL THEN "" ELSE a) = (IF b = NULL THEN "" ELSE b)

\* every non-key field the row supplies equals the stored one
RowEqualsRecord(vrow, rec) ==
    \A k \in (DOMAIN vrow) \ {"ORDER ID", "SKU"} : SameText(vrow[k], rec[k])

\* the loop is about to process a row that carries an ORDER ID, inside a
\* healthy transaction, with values the table can store
ProcessingSoundRow ==
    /\ pc = "upload"
    /\ idx <= Len(batch)
    /\ idx' = idx + 1
    /\ ~aborted
    /\ DOMAIN ValidRow(batch[idx]) # {}
    /\ RowOid(ValidRow(batch[idx])) # ""
    /\ ~InsertRejected(ValidRow(batch[idx]))

\* C1: a row with a non-empty ORDER ID is inserted (and counted inserted) when
\* no record has its (ORDER ID, SKU) key, skipped with the table unchanged
\* when the record equals it on every supplied non-key field, and otherwise
\* overwrites the supplied non-key fields of that record and counts as updated.
C1_RowReconciled ==
    [][ ProcessingSoundRow =>
          LET vrow == ValidRow(batch[idx])
              hits == KeyMatches(txn, RowOid(vrow), RowSku(vrow))
          IN  \/ /\ hits = {}
                 /\ txn' = Append(txn, InsertRecord(vrow))
                 /\ counts' = Bump(counts, "inserted")
              \/ \E i \in hits :
                    /\ RowEqualsRecord(vrow, txn[i])
                    /\ txn' = txn
                    /\ counts' = Bump(counts, "skipped")
              \/ \E i \in hits :
                    /\ ~RowEqualsRecord(vrow, txn[i])
                    /\ Len(txn') = Len(txn)
                    /\ RowEqualsRecord(vrow, txn'[i])
                    /\ counts' = Bump(counts, "updated") ]_vars

\* the second of two successive runs of one batch has just finished; every row
\* of the batch carries an ORDER ID and values the table can store
SecondRunDone ==
    /\ pc = "idle"
    /\ req.op = "upload"
    /\ resp.status = 200
    /\ replay
    /\ \A i \in 1..Len(batch) :
          /\ RowOid(ValidRow(batch[i])) # ""
          /\ ~InsertRejected(ValidRow(batch[i]))

\* C2: the second of two successive runs of the same batch reports no insert
\* and no update, counts every row as skipped and leaves the table as the
\* first run left it.
C2_SecondRunIsNoOp ==
    [][ (pc = "upload" /\ SecondRunDone') =>
          /\ counts.inserted = 0
          /\ counts.updated = 0
          /\ counts.skipped = Len(batch)
          /\ store' = store ]_vars

\* C3: each row's effect is committed on its own: a row the run inserted is in
\* the table when the run ends, whatever happened to other rows, and a row is
\* counted as an error only for a failure of its own statement.
C3_RowsCommittedIndependently ==
    [][ (pc = "upload" /\ pc' = "idle") =>
          \A i \in 1..Len(batch) :
             /\ log[i] = "inserted" =>
                   \E j \in 1..Len(store') :
                      store'[j] = InsertRecord(ValidRow(batch[i]))
             /\ log[i] = "error" =>
                   \/ InsertRejected(ValidRow(batch[i]))
                   \/ \E j \in 1..Len(store') :
                         /\ store'[j]["ORDER ID"] = RowOid(ValidRow(batch[i]))
                         /\ ~RowEqualsRecord(ValidRow(batch[i]), store'[j]) ]_vars

\* the row's SKU is absent, empty, None or the text "None"
SkuMissing(vrow) ==
    \/ "SKU" \notin DOMAIN vrow
    \/ vrow["SKU"] \in {NULL, "", "None"}

\* C10: a row without a SKU is looked up, updated and stored only as the
\* record of its ORDER ID whose SKU is NULL, and a row with a SKU never
\* touches that record.
C10_NoSkuKey ==
    [][ ProcessingSoundRow =>
          LET vrow == ValidRow(batch[idx])
          IN  \A i \in 1..Len(txn') :
                 (i > Len(txn) \/ txn'[i] # txn[i]) =>
                    (SkuMissing(vrow) <=> txn'[i]["SKU"] = NULL) ]_vars

----------------------------------------------------------------------------
(* Properties of the conditional update *)

\* None, the empty string and (in any case) "nan" / "none" stand for "empty"
EmptyText(v) == v = NULL \/ Lower(v) \in {"", "nan", "none"}

\* equality as text, all empty values being equal
SameValue(a, b) ==
    IF EmptyText(a) \/ EmptyText(b) THEN EmptyText(a) /\ EmptyText(b) ELSE a = b

\* the record has the given ORDER ID and still matches the fingerprint
StillMatches(rec, order_id, fp) ==
    /\ rec["ORDER ID"] = order_id
    /\ \A k \in (DOMAIN fp) \ {"ORDER ID"} : SameValue(rec[k], fp[k])

\* the request names existing columns and changes at least one of them
WellFormed(fp, upd) ==
    /\ DOMAIN ValidUpdates(upd) # {}
    /\ (DOMAIN upd) \cup (DOMAIN fp) \subseteq DbCols

\* what the claim expects of a request: applied to the matching records, or a
\* conflict that leaves the table alone when there is none
AppliedIffMatch(order_id, fp, upd) ==
    IF \E i \in 1..Len(store) : StillMatches(store[i], order_id, fp)
    THEN /\ resp'.status = 200
         /\ \A i \in 1..Len(store) :
               StillMatches(store[i], order_id, fp) =>
                  \A k \in DOMAIN ValidUpdates(upd) : store'[i][k] = upd[k]
    ELSE /\ resp'.status = 409
         /\ store' = store

\* a conditional update has just been served
UpdateServed ==
    pc = "idle" /\ pc' = "idle" /\ ops' = ops + 1 /\ req'.op = "update"

\* C4: the conditional update is applied if and only if a record with the
\* given ORDER ID still matches every fingerprint field as text (empties
\* being equivalent); otherwise it answers 409 and the table is unchanged.
C4_AppliedIffFingerprintMatches ==
    [][ /\ (UpdateServed /\ req'.editor = 0) =>
              \A order_id \in OrderIdArgs, fp \in Fingerprints,
                 upd \in UpdateSets :
                 (WellFormed(fp, upd) /\ UpdateMasterRowReq(order_id, fp, upd))
                    => AppliedIffMatch(order_id, fp, upd)
        /\ (UpdateServed /\ req'.editor = 1) =>
              \A upd \in UpdateSets :
                 (WellFormed(snap.row, upd) /\ EditorSubmitReq(upd))
                    => AppliedIffMatch(snap.row["ORDER ID"], snap.row,
                                       CleanDict(upd)) ]_vars

\* the record differs from the fingerprint in some field, as text
Stale(rec, fp) == \E k \in DOMAIN fp : ~SameValue(rec[k], fp[k])

\* C5: when the row a session loaded has since been changed in a fingerprinted
\* field by any other request, the session's conditional update is rejected
\* with a conflict and the table keeps the other writer's values; so of two
\* updates sent with one fingerprint that each change a fingerprinted field,
\* the second is rejected.
C5_StaleWriteRejected ==
    [][ ( /\ UpdateServed
          /\ req'.editor = 1
          /\ snap.idx \in 1..Len(store)
          /\ Stale(store[snap.idx], snap.row) )
        => \A upd \in UpdateSets :
              EditorSubmitReq(upd)
              => /\ store' = store
                 /\ WellFormed(snap.row, upd) => resp'.status = 409 ]_vars

\* a session's update has just been rejected because its row had changed
C5_Witness ==
    /\ req.op = "update"
    /\ req.editor = 1
    /\ resp.status = 409
    /\ snap.idx \in 1..Len(store)
    /\ Stale(store[snap.idx], snap.row)

----------------------------------------------------------------------------
(* Properties across operations *)

\* the row is an output row of create_master_transformations
IsPipelineRow(row) ==
    /\ DOMAIN row = DbCols
    /\ \A k \in SkipColSet : row[k] = MasterDefault(k)

\* the finished upload held a pipeline row with the key of record i
ReconciledByPipelineRow(i) ==
    \E n \in 1..Len(batch) :
       /\ IsPipelineRow(batch[n])
       /\ i \in KeyMatches(store, RowOid(ValidRow(batch[n])),
                           RowSku(ValidRow(batch[n])))

NonDeleteServed ==
    \/ pc = "upload" /\ pc' = "idle"
    \/ pc = "idle" /\ pc' = "idle" /\ ops' = ops + 1 /\ req'.op # "delete"

----------------------------------------------------------------------------
(* Properties of the skip append *)

\* the slot holds no date: NULL, empty or a placeholder
SlotFree(v) == v \in {NULL, "", "0", "-"}

FreeSlots(rec) == { j \in 1..NumSkipSlots : SlotFree(rec[SkipCols[j]]) }

\* slots 1..k of the record hold dates and the others are free
FilledTo(rec, k) == FreeSlots(rec) = (k + 1)..NumSkipSlots

\* C7: the append writes the date into the lowest-numbered unused slot of the
\* identified record and returns that slot's name; on a record whose dates
\* fill SKIP1..SKIPk it leaves them in place and puts the new date in
\* SKIP(k+1), so successive appends fill the slots in call order.
C7_AppendsToLowestFreeSlot ==
    [][ \A order_id \in OrderIdArgs, sku \in SkuArgs, val \in SkipDates,
           i \in 1..Len(store) :
           (SkipOrderReq(order_id, sku, val, i) /\ FreeSlots(store[i]) # {})
           => LET j == CHOOSE m \in FreeSlots(store[i]) :
                          \A n \in FreeSlots(store[i]) : m <= n
              IN  /\ resp'.status = 200
                  /\ resp'.column = SkipCols[j]
                  /\ store'[i][SkipCols[j]] = val
                  /\ FilledTo(store[i], j - 1) =>
                        /\ FilledTo(store'[i], j)
                        /\ \A h \in 1..(j - 1) :
                              store'[i][SkipCols[h]] = store[i][SkipCols[h]] ]_vars

\* three successive appends have filled SKIP1..SKIP3 of the identified record
C7_Witness ==
    /\ req.op = "skip"
    /\ resp.status = 200
    /\ resp.column = "SKIP3"
    /\ ops = 3
    /\ FilledTo(store[req.row], 3)

\* C8: with all twenty slots of the identified record occupied the append is
\* rejected with the capacity error, and with no record under the key it is
\* rejected with not-found; in both cases the table is unchanged.
C8_FullOrMissingRejected ==
    [][ \A order_id \in OrderIdArgs, sku \in SkuArgs :
          /\ \A val \in SkipDates, i \in 1..Len(store) :
                (SkipOrderReq(order_id, sku, val, i) /\ FreeSlots(store[i]) = {})
                   => (resp'.status = 400 /\ store' = store)
          /\ ( /\ pc = "idle" /\ pc' = "idle" /\ ops' = ops + 1
               /\ req'.op = "skip"
               /\ \A i \in 1..Len(store) :
                     ~( /\ store[i]["ORDER ID"] = order_id
                        /\ sku # NULL => store[i]["SKU"] = sku )
               /\ (SkipOrderNotFound(order_id, sku)
                     \/ \E val \in SkipDates, i \in 1..Len(store) :
                           SkipOrderReq(order_id, sku, val, i)) )
             => (resp'.status = 404 /\ store' = store) ]_vars

\* an append has been refused because the record's twenty slots are occupied
C8_Witness ==
    /\ req.op = "skip"
    /\ resp.status = 400
    /\ FreeSlots(store[req.row]) = {}

----------------------------------------------------------------------------
(* Properties of expand_subscriptions *)

\* expand_subscriptions has been applied to the frame of the call
Expanded == req.op = "process" /\ resp # NoResp /\ resp.stage = "expanded"

\* the rows of the output that come from the input row at position p
EmittedFor(p) ==
    SelectSeq(resp.out.value, LAMBDA e : e.label = req.frame[p].label)

\* the row at position p is a bundle row whose START DATE reads as a date
BundleWithDate(p) ==
    /\ req.frame[p].row["SKU"] \in DOMAIN sku_map
    /\ ToDatetime(req.frame[p].row["START DATE"]).kind = "date"

\* the i-th Monday-to-Friday day counted from the day d on, d included
IthWeekday(d, i) ==
    CHOOSE x \in d..(d + 7 * i) :
       /\ Weekday(x) < 5
       /\ Cardinality({ y \in d..x : Weekday(y) < 5 }) = i

\* C11: a bundle row whose START DATE parses is expanded into min(5, length
\* of the mapped list) rows, the i-th carrying the i-th mapped SKU and the
\* i-th Monday-to-Friday day counted from the start date on (the start date
\* included), so that the dates strictly increase.
C11_BundleExpanded ==
    Expanded =>
       /\ (Len(req.frame) = 1 /\ BundleWithDate(1)) => resp.out.kind = "returned"
       /\ resp.out.kind = "returned" =>
            \A p \in 1..Len(req.frame) :
               BundleWithDate(p) =>
                  LET row    == req.frame[p].row
                      mapped == sku_map[row["SKU"]]
                      start  == ToDatetime(row["START DATE"]).day
                      rows   == EmittedFor(p)
                  IN  /\ Len(rows) = Min(5, Len(mapped))
                      /\ \A i \in 1..Len(rows) :
                            /\ rows[i].row["SKU"] = mapped[i]
                            /\ rows[i].row["START DATE"]
                                  = IsoDays[IthWeekday(start, i)]
                            /\ \A k \in (DOMAIN row) \ {"SKU", "START DATE"} :
                                  rows[i].row[k] = row[k]
                      /\ \A i \in 1..(Len(rows) - 1) :
                            ToDatetime(rows[i].row["START DATE"]).day
                               < ToDatetime(rows[i + 1].row["START DATE"]).day

\* a bundle row starting on a Saturday has been expanded from the Monday on
C11_Witness ==
    /\ Expanded
    /\ resp.out.kind = "returned"
    /\ \E p \in 1..Len(req.frame) :
          /\ BundleWithDate(p)
          /\ req.frame[p].row["START DATE"] = "2026-02-07"
          /\ Len(EmittedFor(p)) = 5
          /\ EmittedFor(p)[1].row["START DATE"] = "2026-02-09"

\* C12: every row that is not expanded (its SKU is no bundle key, or it is
\* one but START DATE cannot be read as a date) comes out exactly once with
\* every field as it went in; the call neither raises nor drops the row.
C12_OthersPassThrough ==
    Expanded =>
       \A p \in 1..Len(req.frame) :
          ~BundleWithDate(p) =>
             /\ resp.out.kind = "returned"
             /\ EmittedFor(p) = << req.frame[p] >>

----------------------------------------------------------------------------
(* Properties of fill_end_date *)

\* fill_end_date has been applied to the row of the call
EndDateApplied == req.op = "fill_end_date" /\ resp # NoResp

\* the START DATE is the text of a calendar date
HasDate(start) ==
    \E d \in Days : IsoDays[d] = start \/ (d \in DOMAIN UsDays /\ UsDays[d] = start)

DayOf(start) ==
    CHOOSE d \in Days :
        IsoDays[d] = start \/ (d \in DOMAIN UsDays /\ UsDays[d] = start)

\* a day of the custom calendar of the row: Monday to Friday, Saturday and
\* Sunday on a yes flag (in any case, trimmed), no date held in SKIP1..SKIP20
ValidDay(d, row) ==
    /\ \A c \in SkipColSet : row[c] # IsoDays[d]
    /\ \/ Weekday(d) < 5
       \/ Weekday(d) = 5 /\ Lower(Strip(row["DELSAT"])) = "yes"
       \/ Weekday(d) = 6 /\ Lower(Strip(row["DELSUN"])) = "yes"

\* the day reached from d in that many steps, each to the next valid day
RECURSIVE Advance(_, _, _)
Advance(d, steps, row) ==
    IF steps = 0 THEN d
    ELSE Advance(CHOOSE x \in (d + 1)..NumDays :
                     /\ ValidDay(x, row)
                     /\ \A y \in (d + 1)..(x - 1) : ~ValidDay(y, row),
                 steps - 1, row)

LongDuration(days) == days \in DOMAIN DaysNumber /\ DaysNumber[days] > 1

\* C13: for a row with a START DATE that reads as a date and an integer
\* duration d > 1, fill_end_date gives the START DATE advanced by d-1 steps
\* of the calendar Monday to Friday, plus Saturday only with DELSAT yes and
\* Sunday only with DELSUN yes, minus the dates held in SKIP1..SKIP20
C13_EndDateOnCustomCalendar ==
    (EndDateApplied /\ HasDate(Strip(req.row["START DATE"]))
                    /\ LongDuration(req.row["DAYS"]))
    => resp.out =
          Returned(IsoDays[Advance(DayOf(Strip(req.row["START DATE"])),
                                   DaysNumber[req.row["DAYS"]] - 1, req.row)])

\* START 2026-02-02, three days, a skip on 2026-02-03, no weekend delivery:
\* END 2026-02-05
C13_Witness ==
    /\ EndDateApplied
    /\ req.row["START DATE"] = "2026-02-02"
    /\ req.row["DAYS"] = "3"
    /\ req.row["SKIP1"] = "2026-02-03"
    /\ req.row["SKIP2"] = "0"
    /\ req.row["DELSAT"] = "-"
    /\ req.row["DELSUN"] = "-"
    /\ resp.out = Returned("2026-02-05")

\* C14: for a row with a START DATE that reads as a date, END DATE is the
\* START DATE written as YYYY-MM-DD when the duration is at most 1, and a
\* DAYS value that is missing, empty or not a number counts as 1; skip dates
\* and weekend flags change nothing
C14_SingleDayEndsOnStart ==
    (EndDateApplied /\ HasDate(Strip(req.row["START DATE"]))
                    /\ ~LongDuration(req.row["DAYS"]))
    => resp.out = Returned(IsoDays[DayOf(Strip(req.row["START DATE"]))])

\* a Saturday start with a non-numeric duration and a skip listed
C14_Witness ==
    /\ EndDateApplied
    /\ req.row["START DATE"] = "2026-02-07"
    /\ req.row["DAYS"] = "abc"
    /\ req.row["SKIP1"] = "2026-02-07"
    /\ req.row["DELSAT"] = "-"
    /\ resp.out = Returned("2026-02-07")

\* C15: fill_end_date never raises and resolves its cases in order: paused
\* START DATE gives PAUSE; empty or not-scheduled START DATE gives the
\* not-scheduled sentinel; any other START DATE that is not a date is
\* passed through; otherwise END DATE is an ISO date
C15_EdgeCasesInOrder ==
    EndDateApplied =>
        LET start == Strip(req.row["START DATE"])
        IN  /\ resp.out.kind = "returned"
            /\ start = "P" => resp.out.value = "PAUSE"
            /\ start \in {"", "-", "0"} => resp.out.value = "-"
            /\ (start \notin {"P", "", "-", "0"} /\ ~HasDate(start))
                  => resp.out.value = start
            /\ HasDate(start)
                  => \E d \in Days : resp.out.value = IsoDays[d]

----------------------------------------------------------------------------
(* Properties of fill_status *)

\* fill_status has been applied to the row of the call
StatusApplied == req.op = "fill_status" /\ resp # NoResp

StartText == Strip(req.row["START DATE"])
EndText == Strip(req.row["END DATE"])

\* the paused sentinel as each field carries it: P on START DATE, PAUSE
\* (written by fill_end_date) on END DATE
Paused == StartText = "P" \/ EndText = "PAUSE"
Cancelled == StartText = "-" \/ EndText = "-"
BothDates == HasDate(StartText) /\ HasDate(EndText)

DateStatuses == {"LAST DAY", "WIP", "TBS", "DELIVERED"}

\* C16: fill_status gives PAUSE when START DATE or END DATE carries the
\* paused sentinel; else CANCELLED when either is '-'; else ERROR when
\* either does not read as a date; a status derived from dates is given
\* only when both dates read as dates
C16_OverridesBeforeDates ==
    StatusApplied =>
        /\ resp.out.value =
              (IF Paused THEN "PAUSE"
               ELSE IF Cancelled THEN "CANCELLED"
               ELSE IF ~BothDates THEN "ERROR"
               ELSE resp.out.value)
        /\ resp.out.value \in DateStatuses => BothDates

\* a paused start with a cancelled end is PAUSE
C16_Witness ==
    /\ StatusApplied
    /\ req.row["START DATE"] = "P"
    /\ req.row["END DATE"] = "-"
    /\ resp.out.value = "PAUSE"

\* the status the dates give on a day
StatusOn(today, start, end) ==
    IF today = end THEN "LAST DAY"
    ELSE IF start <= today /\ today <= end THEN "WIP"
    ELSE IF today < start THEN "TBS"
    ELSE "DELIVERED"

\* C17: when START DATE and END DATE both read as dates, the status is a
\* function of (today, START DATE, END DATE): LAST DAY when today is END
\* DATE (also when START DATE is END DATE), else WIP from START DATE to END
\* DATE, else TBS before START DATE, else DELIVERED
C17_StatusFromDates ==
    (StatusApplied /\ BothDates)
    => resp.out.value = StatusOn(req.today, DayOf(StartText), DayOf(EndText))

\* a one-day row seen on its day
C17_Witness ==
    /\ StatusApplied
    /\ req.row["START DATE"] = "2026-02-03"
    /\ req.row["END DATE"] = "2026-02-03"
    /\ req.today = DayOf("2026-02-03")
    /\ resp.out.value = "LAST DAY"

Rank(status) ==
    CASE status = "TBS"       -> 1
      [] status = "WIP"       -> 2
      [] status = "LAST DAY"  -> 3
      [] status = "DELIVERED" -> 4

\* C18: with START DATE <= END DATE and the date fields untouched, the run
\* of the next day never gives an earlier status of TBS, WIP, LAST DAY,
\* DELIVERED than the run before; it gives LAST DAY when today is END DATE
\* and DELIVERED on every day after
C18_StatusOnlyMovesForward ==
    [][(/\ StatusApplied
        /\ BothDates
        /\ DayOf(StartText) <= DayOf(EndText)
        /\ req'.today = req.today + 1)
       => /\ req'.row = req.row
          /\ Rank(resp'.out.value) >= Rank(resp.out.value)
          /\ req'.today = DayOf(EndText) => resp'.out.value = "LAST DAY"
          /\ req'.today > DayOf(EndText) => resp'.out.value = "DELIVERED"]_vars

\* the run of the day after END DATE: DELIVERED, dates as they were
C18_Witness ==
    /\ StatusApplied
    /\ req.row["START DATE"] = "2026-02-03"
    /\ req.row["END DATE"] = "2026-02-05"
    /\ req.today = DayOf("2026-02-05") + 1
    /\ resp.out.value = "DELIVERED"

----------------------------------------------------------------------------
(* Properties of vlookup_sku *)

\* vlookup_sku has returned the master frame of the call
LookedUp == req.op = "process" /\ resp # NoResp /\ resp.stage = "looked up"

\* the row at position q holds the reference record of its own SKU, or
\* empty strings when the catalog has no such SKU
OwnRecord(q) ==
    LET row == resp.out.value[q].row
        sku == Strip(row["SKU"])
    IN  \A k \in DOMAIN RefCols :
            row[k] = IF sku \in DOMAIN req.ref_dict
                     THEN req.ref_dict[sku][RefCols[k]] ELSE ""

\* C19: vlookup_sku looks every row's SKU up in the reference catalog: on a
\* hit SELLER, DELIVERY, MEAL TYPE, MEAL PLAN, PRODUCT, PRODUCT CODE and
\* DESCRIPTION are those of the reference record; on a miss, or without a
\* catalog, all of them are empty strings; no error is raised
C19_RowsHoldOwnRecord ==
    LookedUp =>
        /\ resp.out.kind = "returned"
        /\ \A q \in 1..Len(resp.out.value) : OwnRecord(q)

\* C20: DAYS is a function of the looked-up MEAL PLAN only: Trial 1, Weekly
\* 5, Weekly (3 Days) 3, Weekly (4 Days) 4, Monthly 20, Monthly (12 Days)
\* 12, Monthly (16 Days) 16, and an empty duration for every other plan,
\* the empty plan of a catalog miss included
C20_DaysFromMealPlan ==
    LookedUp =>
        \A q \in 1..Len(resp.out.value) :
            LET plan == Strip(resp.out.value[q].row["MEAL PLAN"])
            IN  resp.out.value[q].row["DAYS"] =
                  CASE plan = "Trial"             -> "1"
                    [] plan = "Weekly"            -> "5"
                    [] plan = "Weekly (3 Days)"   -> "3"
                    [] plan = "Weekly (4 Days)"   -> "4"
                    [] plan = "Monthly"           -> "20"
                    [] plan = "Monthly (12 Days)" -> "12"
                    [] plan = "Monthly (16 Days)" -> "16"
                    [] OTHER                      -> ""

\* a frame with a three-day plan, an unknown plan and a miss
C20_Witness ==
    /\ LookedUp
    /\ \E q \in 1..Len(resp.out.value) :
          /\ resp.out.value[q].row["MEAL PLAN"] = "Weekly (3 Days)"
          /\ resp.out.value[q].row["DAYS"] = "3"
    /\ \E q \in 1..Len(resp.out.value) :
          /\ resp.out.value[q].row["MEAL PLAN"] = ""
          /\ resp.out.value[q].row["DAYS"] = ""

----------------------------------------------------------------------------
(* Properties of the pipeline as a whole *)

\* the call of the pipeline has ended: with the master frame, or at the
\* stage that did not return
Finished ==
    /\ req.op = "process"
    /\ resp # NoResp
    /\ (resp.stage = "done" \/ resp.out.kind # "returned")

\* what the call gave for the input row at position p
OutputFor(p) ==
    IF resp.out.kind = "returned"
    THEN Returned(SelectSeq(resp.out.value,
                            LAMBDA e : e.label = req.frame[p].label))
    ELSE resp.out

\* what the pipeline gives for that row when it is the only row of the frame
Alone(p) ==
    LET expanded == ExpandSubscriptions(<< req.frame[p] >>)
    IN  IF expanded.kind # "returned" THEN expanded
        ELSE create_master_transformations(expanded.value, req.ref_dict,
                                           req.today)

\* C21: the stages are row-independent: for a fixed today and fixed lookup
\* tables, the output rows of an input row depend on that row's fields only,
\* so the frame gives for each row what the row gives alone, in any order
C21_RowsIndependent ==
    Finished => \A p \in 1..Len(req.frame) : OutputFor(p) = Alone(p)

\* C23: expand_subscriptions terminates on every input: for every bundle
\* row and every START DATE value the loop of get_next_business_days ends,
\* and the row is expanded or passed through
C23_ExpandTerminates ==
    Expanded =>
        /\ resp.out.kind = "returned"
        /\ \A p \in 1..Len(req.frame) : Len(EmittedFor(p)) >= 1

----------------------------------------------------------------------------
(* Properties of the delivery window *)

\* C27: for a row with a START DATE that reads as a date and a duration
\* d >= 1, the closed interval from START DATE to the END DATE of
\* fill_end_date holds exactly d valid delivery days, also when START DATE
\* is a weekend day the mask excludes or a skip date
C27_WindowHoldsAllDeliveries ==
    (/\ EndDateApplied
     /\ HasDate(Strip(req.row["START DATE"]))
     /\ req.row["DAYS"] \in DOMAIN DaysNumber
     /\ DaysNumber[req.row["DAYS"]] >= 1)
    => /\ resp.out.kind = "returned"
       /\ HasDate(resp.out.value)
       /\ Cardinality({ x \in DayOf(Strip(req.row["START DATE"]))
                                ..DayOf(resp.out.value) :
                          ValidDay(x, req.row) })
             = DaysNumber[req.row["DAYS"]]

\* create_master_transformations has run as far as fill_end_date
PipelineEnded ==
    /\ req.op = "process"
    /\ resp # NoResp
    /\ resp.stage \in {"ended", "done"}
    /\ resp.out.kind = "returned"

----------------------------------------------------------------------------
(* Frame properties of the router handlers *)

\* a skip append has just been served with success
SkipApplied ==
    /\ pc = "idle"
    /\ pc' = "idle"
    /\ ops' = ops + 1
    /\ req'.op = "skip"
    /\ resp'.status = 200

\* C28: a successful skip append changes exactly one slot of exactly one
\* record: only the returned SKIPn of the identified record receives the
\* date; its other fields and every other record, other SKUs of the same
\* ORDER ID included, are unchanged, and no slot holding a date is
\* overwritten
C28_SkipChangesOneSlot ==
    [][ SkipApplied =>
          /\ Len(store') = Len(store)
          /\ store'[req'.row][resp'.column] \in SkipDates
          /\ \A j \in 1..Len(store) : \A k \in DOMAIN store[j] :
                \/ (j = req'.row /\ k = resp'.column)
                \/ store'[j][k] = store[j][k] ]_vars

\* a batch upload has returned its tally
UploadAnswered ==
    /\ pc = "idle"
    /\ req.op = "upload"
    /\ resp # NoResp
    /\ resp.status = 200

\* C25: the tally of a batch upload accounts for every row exactly once:
\* inserted + updated + skipped + errors is the number of rows of the batch
C25_TallyCountsEveryRow ==
    UploadAnswered =>
        resp.tally.inserted + resp.tally.updated + resp.tally.skipped
            + resp.tally.errors = Len(batch)

----------------------------------------------------------------------------
(* Properties of the table as a whole *)

\* the (ORDER ID, SKU) key of a record, values trimmed, a missing SKU as NULL
NormalizedKey(rec) ==
    << Strip(rec["ORDER ID"]),
       IF rec["SKU"] = NULL \/ Strip(rec["SKU"]) = "" THEN NULL
       ELSE Strip(rec["SKU"]) >>

\* the table holds at most one record per normalized key
KeysUnique(table) ==
    \A i, j \in 1..Len(table) :
        i # j => NormalizedKey(table[i]) # NormalizedKey(table[j])

\* C24: no batch upload, conditional update or skip append, executed one at a
\* time on a table with at most one record per normalized (ORDER ID, SKU)
\* key, leaves the table with two records of one key.
C24_KeysStayUnique ==
    [][ (KeysUnique(store) /\ req'.op \in {"upload", "update", "skip"})
            => KeysUnique(store') ]_vars

----------------------------------------------------------------------------
(* Frame of the conditional update *)

\* two records with one ORDER ID and one SKU, empties being one SKU
SameKey(a, b) ==
    /\ a["ORDER ID"] = b["ORDER ID"]
    /\ SameValue(a["SKU"], b["SKU"])

\* no two records of the table have one key
OneRecordPerKey(table) ==
    \A i, j \in 1..Len(table) : i # j => ~SameKey(table[i], table[j])

\* the rows of the table the request has changed
RowsChanged == { i \in 1..Len(store) : store'[i] # store[i] }

\* what the claim expects of an update request with these arguments
UpdateFrame(order_id, fp, upd) ==
    /\ Len(store') = Len(store)
    /\ (DOMAIN upd) \subseteq {"ORDER ID"} =>
          /\ store' = store
          /\ resp'.status = 200
          /\ resp'.result = "no changes"
    /\ resp'.result # "success" => store' = store
    /\ resp'.result = "success" =>
          /\ \A i \in 1..Len(store), k \in DbCols :
                store'[i][k] # store[i][k] =>
                   /\ k \in (DOMAIN upd) \ {"ORDER ID"}
                   /\ store'[i][k] = upd[k]
                   /\ StillMatches(store[i], order_id, fp)
          /\ ("SKU" \in DOMAIN fp /\ OneRecordPerKey(store)) =>
                /\ resp'.updated = 1
                /\ Cardinality(RowsChanged) <= 1

\* the request with these arguments gives the step's answer and table
Answered(order_id, fp, upd) ==
    LET r == UpdateMasterRowResult(store, order_id, fp, upd)
    IN  r.resp = resp' /\ r.tab = store'

\* C30: a successful conditional update changes only the fields named in its
\* updates, never the ORDER ID, and only records that matched the
\* fingerprint; with the SKU in the fingerprint and one record per key it
\* updates exactly one record; updates that are empty or name only ORDER ID
\* change nothing and answer "no changes".
C30_UpdateChangesNamedFieldsOnly ==
    [][ /\ (UpdateServed /\ req'.editor = 0) =>
              \A order_id \in OrderIdArgs, fp \in Fingerprints,
                 upd \in UpdateSets :
                 Answered(order_id, fp, upd)
                    => UpdateFrame(order_id, fp, upd)
        /\ (UpdateServed /\ req'.editor = 1) =>
              \A upd \in UpdateSets :
                 Answered(PyStr(snap.row["ORDER ID"]), CleanDict(snap.row),
                          CleanDict(upd))
                    => UpdateFrame(PyStr(snap.row["ORDER ID"]), snap.row,
                                   CleanDict(upd)) ]_vars

\* an update has changed one record of a table of two and left the other
C30_Witness ==
    /\ req.op = "update"
    /\ resp.status = 200
    /\ resp.result = "success"
    /\ resp.updated = 1
    /\ Len(store) = 2
    /\ Cardinality({ t[1] : t \in req.edit }) = 1
    /\ \E t \in req.edit : t[2] = "NAME" /\ t[3] = "y"

----------------------------------------------------------------------------
(* Properties of check_duplicate_ids *)

\* the normal form of an ID, trimmed first or '#' removed first
NormalForm(order, oid) ==
    IF order = "trim, remove"
    THEN SelectSeq(TrimBlanks(oid), LAMBDA c : c # "#")
    ELSE TrimBlanks(SelectSeq(oid, LAMBDA c : c # "#"))

\* the input IDs whose normal form is that of some stored ORDER ID
StoredAmong(order, order_ids) ==
    SelectSeq(order_ids,
              LAMBDA oid : \E i \in 1..Len(store) :
                  NormalForm(order, store[i]["ORDER ID"])
                     = NormalForm(order, oid))

\* C22: check_duplicate_ids returns, in input order and original spelling,
\* exactly the input IDs whose normal form (blanks trimmed, every '#'
\* removed) is that of a stored ORDER ID; without an input list, or with an
\* empty one, it returns the empty list and does not query the table.
C22_ReturnsStoredIds ==
    req.op = "check" =>
        IF "order_ids" \notin DOMAIN req.params
        THEN resp.existing_ids = << >> /\ ~resp.queried
        ELSE \E order \in {"trim, remove", "remove, trim"} :
                resp.existing_ids = StoredAmong(order, req.params.order_ids)

----------------------------------------------------------------------------
(* Properties of concurrent skip appends *)

\* the slots of the record that hold the date
SlotsHolding(rec, date) ==
    { j \in 1..NumSkipSlots : rec[SkipCols[j]] = date }

\* the number of unused slots of the record
UnusedSlots(rec) ==
    Cardinality({ j \in 1..NumSkipSlots : SlotUnused(rec[SkipCols[j]]) })

\* two calls with different dates have both succeeded on one record, named
\* by ORDER ID and SKU, that had two unused slots or more when each read it
BothAppended ==
    /\ \A p \in Callers : pc[p] = "done" /\ resp[p].status = 200
    /\ req[1].skip_date # req[2].skip_date
    /\ req[1].order_id = req[2].order_id
    /\ req[1].sku # NULL
    /\ req[1].sku = req[2].sku
    /\ snap[1].idx = snap[2].idx
    /\ \A p \in Callers : UnusedSlots(snap[p].row) >= 2

\* C26: no successful skip append is lost: after two concurrent calls with
\* different dates on one record with at least two unused slots, the record
\* holds both dates in two distinct slots and the calls name different slots.
C26_NoAppendLost ==
    BothAppended =>
        /\ resp[1].column # resp[2].column
        /\ \A p \in Callers :
              store[snap[p].idx][resp[p].column] = req[p].skip_date

====
